---- MODULE Spec2Model ----
(***************************************************************************)
(* TgNotifier (src/src/index.ts): a Telegram notification client that      *)
(* keeps a recipient store file, a success log and an error log, and       *)
(* purges old log files on a timer.                                        *)
(*                                                                         *)
(* Strings the code inspects character by character (chat ids, the content *)
(* of the chat-id file) are sequences of one-character strings.  Time is   *)
(* Date.now() in milliseconds.  One action is one run-to-completion turn   *)
(* of the single JavaScript thread: a public call up to its first await, a *)
(* fetch settlement with the continuations it triggers, or a timer tick.   *)
(***************************************************************************)
EXTENDS Integers, Sequences, FiniteSets, TLC

(* ---------------------------- bounds ---------------------------------- *)
\* total number of sendMessage invocations in a run (direct or as a member)
MaxSends == 2
\* number of sendToMultipleChats calls in a run
MaxMulti == 1
\* number of firings of the cleaning interval in a run
MaxTicks == 1

(* -------------------------- program constants ------------------------- *)
HourMs == 60 * 60 * 1000
\* index.ts:101  7 * 24 * 60 * 60 * 1000
WeekMs == 7 * 24 * 60 * 60 * 1000
\* index.ts:57  options.cleanIntervalHours || 24
DefaultCleanIntervalHours == 24

(* ------------------------------ inputs -------------------------------- *)
NL == "\n"
SP == " "
\* the empty string; also stands for an omitted (undefined) argument, which
\* `chatId || this.chatId` and `options.x || d` treat the same way
Empty == <<>>
\* chat ids offered to the public operations
ChatIdArgs == {Empty, <<"a">>, <<SP, "a">>}
\* the options offered to the constructor: none but the token, or a default
\* chat id and a cleaning interval of eight days
ConstructorOptions ==
    {[chatId |-> Empty, cleanIntervalHours |-> 0],
     [chatId |-> <<"a">>, cleanIntervalHours |-> 8 * 24]}
Messages == {"hi"}
\* Date.now() when the process starts, taken as the origin of time
Now0 == 0
\* modification times of log files left in the log directories by earlier
\* runs: eight days and six days before the process starts
OldMtimes == {Now0 - 8 * 24 * HourMs, Now0 - 6 * 24 * HourMs}

NoFile == [exists |-> FALSE, mtime |-> 0, lines |-> <<>>]
\* a log file written by an earlier run, last modified at time m
OldFile(m) == [exists |-> TRUE, mtime |-> m, lines |-> <<[ts |-> m, text |-> <<"earlier run">>]>>]
NoChatIdsFile == [exists |-> FALSE, text |-> <<>>]
SuccessLog == <<"success", "success.log">>
ErrorLog == <<"error", "error.log">>
\* a file of another name in the success subdirectory
OtherLog == <<"success", "old.log">>
Paths == {SuccessLog, ErrorLog, OtherLog}
\* the two subdirectories cleanOldLogs scans
LogDirs == {"success", "error"}

\* what one fetch call can end in: a response with a status, or a rejection
\* with a value that is or is not an instance of Error
Response(st) == [type |-> "response", status |-> st, isError |-> FALSE, message |-> ""]
Rejection(isErr, m) == [type |-> "reject", status |-> 0, isError |-> isErr, message |-> m]
HttpOutcomes == {Response(200), Response(404), Rejection(TRUE, "fetch failed"), Rejection(FALSE, "")}
NotIssued == [type |-> "none", status |-> 0, isError |-> FALSE, message |-> ""]
Pending == [type |-> "pending", status |-> 0, isError |-> FALSE, message |-> ""]

VARIABLES
    constructed,   \* the constructor has run
    chatId,        \* this.chatId (Empty: undefined)
    cleanIntervalHours, \* this.cleanIntervalHours
    dirs,          \* directories that exist under this.logsDir
    files,         \* files of the log subdirectories: path -> [exists, mtime, lines]
    chatIdsFile,   \* content of this.chatIdsFile, [exists, text]
    now,           \* Date.now()
    timerStart,    \* when the setInterval timer was set or last fired
    ticks,         \* firings of the interval so far
    purges,        \* runs of cleanOldLogs so far
    console,       \* paths for which "Deleted old log file" was printed
    fetchCalls,    \* bodies of the POST requests issued so far
    sends,         \* the sendMessage invocations, in call order
    multi          \* the sendToMultipleChats invocations, in call order

vars == <<constructed, chatId, cleanIntervalHours, dirs, files, chatIdsFile, now,
          timerStart, ticks, purges, console, fetchCalls, sends, multi>>

Range(s) == {s[i] : i \in 1..Len(s)}

(* --------------------------- string helpers --------------------------- *)
IsSpace(c) == c \in {SP, NL}

RECURSIVE trimStart(_)
trimStart(s) == IF s # <<>> /\ IsSpace(Head(s)) THEN trimStart(Tail(s)) ELSE s

RECURSIVE trimEnd(_)
trimEnd(s) == IF s # <<>> /\ IsSpace(s[Len(s)]) THEN trimEnd(SubSeq(s, 1, Len(s) - 1)) ELSE s

\* String.prototype.trim
trim(s) == trimEnd(trimStart(s))

\* String.prototype.split('\n'): cur is the piece being read
RECURSIVE splitFrom(_, _)
splitFrom(s, cur) ==
    IF s = <<>> THEN <<cur>>
    ELSE IF Head(s) = NL THEN <<cur>> \o splitFrom(Tail(s), <<>>)
    ELSE splitFrom(Tail(s), Append(cur, Head(s)))

split(s) == splitFrom(s, <<>>)

RECURSIVE filterNonBlank(_)
filterNonBlank(ls) ==
    IF ls = <<>> THEN <<>>
    ELSE IF trim(Head(ls)) # <<>> THEN <<Head(ls)>> \o filterNonBlank(Tail(ls))
    ELSE filterNonBlank(Tail(ls))

(* ------------------------------ files --------------------------------- *)
\* index.ts:130-140
readChatIds(f) ==
    IF ~f.exists THEN <<>>
    ELSE LET kept == filterNonBlank(split(f.text))
         IN [i \in 1..Len(kept) |-> trim(kept[i])]

\* addChatId with its test inverted
addChatId_Inverted(f, cid) ==
    IF cid \in Range(readChatIds(f))
    THEN [exists |-> TRUE, text |-> f.text \o cid \o <<NL>>]
    ELSE f

\* index.ts:146-152
addChatId(f, cid) ==
    IF cid \notin Range(readChatIds(f))
    THEN [exists |-> TRUE, text |-> f.text \o cid \o <<NL>>]
    ELSE f

\* index.ts:89-92: appendFileSync creates the file when it is missing and
\* sets its modification time
logMessage(fs, filename, content, t) ==
    [fs EXCEPT ![filename] = [exists |-> TRUE, mtime |-> t,
                              lines |-> Append(fs[filename].lines, [ts |-> t, text |-> content])]]

\* Expired with the comparison of the modification time turned round
Expired_Reversed(fs, t) ==
    {p \in Paths : p[1] \in LogDirs /\ fs[p].exists /\ fs[p].mtime > t - WeekMs}

\* index.ts:98-114: the files a pass of cleanOldLogs at time t unlinks
Expired(fs, t) ==
    {p \in Paths : p[1] \in LogDirs /\ fs[p].exists /\ fs[p].mtime < t - WeekMs}

\* index.ts:98-114: the log directories after a pass at time t
cleanOldLogs(fs, t) == [p \in Paths |-> IF p \in Expired(fs, t) THEN NoFile ELSE fs[p]]

\* index.ts:69-82
createLogDirs(ds) == ds \cup {"logs", "logs/success", "logs/error"}

(* --------------------------- sendMessage ------------------------------ *)
\* ok with the lower end of the range off by one
ok_OffByOne(status) == status > 200 /\ status <= 299

\* index.ts:184: Response.ok
ok(status) == status >= 200 /\ status <= 299

NewSend(target, message, g, st, err, h) ==
    [target |-> target, message |-> message, group |-> g, state |-> st,
     error |-> err, http |-> h, nSuccess |-> 0, nError |-> 0]

\* sendMessageStart recording the chat id before the check of line 162
sendMessageStart_AddFirst(st, message, cid, dflt, g) ==
    LET targetChatId == IF cid # Empty THEN cid ELSE dflt
        f == addChatId(st.file, targetChatId)
    IN IF targetChatId = Empty
       THEN [st EXCEPT !.file = f,
                       !.sends = Append(@, NewSend(Empty, message, g, "rejected",
                                                  "Chat ID not provided", NotIssued))]
       ELSE [file |-> f,
             calls |-> Append(st.calls, [chat_id |-> targetChatId, text |-> message,
                                         parse_mode |-> "html"]),
             sends |-> Append(st.sends, NewSend(targetChatId, message, g, "awaiting",
                                                "", Pending))]

\* index.ts:160-182: sendMessage from its call to the await of fetch.
\* st = [file, calls, sends]; g is the sendToMultipleChats call the
\* invocation belongs to (0: called directly)
sendMessageStart(st, message, cid, dflt, g) ==
    LET targetChatId == IF cid # Empty THEN cid ELSE dflt
    IN IF targetChatId = Empty
       THEN [st EXCEPT !.sends = Append(@, NewSend(Empty, message, g, "rejected",
                                                  "Chat ID not provided", NotIssued))]
       ELSE [file |-> addChatId(st.file, targetChatId),
             calls |-> Append(st.calls, [chat_id |-> targetChatId, text |-> message,
                                         parse_mode |-> "html"]),
             sends |-> Append(st.sends, NewSend(targetChatId, message, g, "awaiting",
                                                "", Pending))]

\* the value caught at index.ts:189 when the fetch ended in o
Thrown(o) ==
    IF o.type = "reject" THEN [thrown |-> TRUE, isError |-> o.isError,
                               detail |-> [msg |-> o.message, status |-> 0]]
    ELSE IF ~ok(o.status) THEN [thrown |-> TRUE, isError |-> TRUE,
                                detail |-> [msg |-> "HTTP error! status", status |-> o.status]]
    ELSE [thrown |-> FALSE, isError |-> FALSE, detail |-> [msg |-> "", status |-> 0]]

Lines(fs, p) == Len(fs[p].lines)

\* sendMessageSettle issuing the request again when the fetch failed
sendMessageSettle_Retry(st, t, s, o) ==
    IF Thrown(o).thrown
    THEN [files |-> st.files,
          calls |-> Append(st.calls, [chat_id |-> s.target, text |-> s.message,
                                      parse_mode |-> "html"]),
          send |-> s]
    ELSE [files |-> logMessage(st.files, SuccessLog,
                               <<"Message sent to chat", s.target, s.message>>, t),
          calls |-> st.calls,
          send |-> [s EXCEPT !.http = o, !.state = "resolved", !.nSuccess = 1]]

\* index.ts:183-195: sendMessage from the settlement of fetch to its end.
\* st = [files, calls]; gives the files, the requests issued and the
\* invocation's record afterwards.
sendMessageSettle(st, t, s, o) ==
    LET e == Thrown(o)
        fs == st.files
        fs2 == IF ~e.thrown
               THEN logMessage(fs, SuccessLog, <<"Message sent to chat", s.target, s.message>>, t)
               ELSE IF e.isError
               THEN logMessage(fs, ErrorLog, <<"Failed to send message to chat", s.target, e.detail>>, t)
               ELSE fs
        failed == e.thrown /\ e.isError
    IN [files |-> fs2,
        calls |-> st.calls,
        send |-> [s EXCEPT !.http = o,
                           !.state = IF failed THEN "rejected" ELSE "resolved",
                           !.error = IF failed THEN "Failed to send message" ELSE "",
                           !.nSuccess = Lines(fs2, SuccessLog) - Lines(fs, SuccessLog),
                           !.nError = Lines(fs2, ErrorLog) - Lines(fs, ErrorLog)]]

(* ------------------------ sendToMultipleChats ------------------------- *)
\* Promise.all taken for Promise.any: fulfilled by the first fulfilment
PromiseAll_Any(states) ==
    IF \E i \in 1..Len(states) : states[i] = "resolved" THEN "resolved"
    ELSE IF \A i \in 1..Len(states) : states[i] = "rejected" THEN "rejected"
    ELSE "pending"

\* index.ts:207: Promise.all over promises in the given states
PromiseAll(states) ==
    IF \E i \in 1..Len(states) : states[i] = "rejected" THEN "rejected"
    ELSE IF \A i \in 1..Len(states) : states[i] = "resolved" THEN "resolved"
    ELSE "pending"

\* index.ts:204: chatIds.map((chatId) => this.sendMessage(message, chatId))
RECURSIVE mapSendMessage(_, _, _, _, _)
mapSendMessage(st, message, cids, dflt, g) ==
    IF cids = <<>> THEN st
    ELSE mapSendMessage(sendMessageStart(st, message, Head(cids), dflt, g),
                        message, Tail(cids), dflt, g)

\* index.ts:206-212: the outcome of sendToMultipleChats given its members
settleMulti(m, ss) ==
    IF m.state # "pending" THEN m
    ELSE LET r == PromiseAll([k \in 1..Len(m.members) |-> ss[m.members[k]].state])
         IN [m EXCEPT !.state = r,
                      !.error = IF r = "rejected"
                                THEN "Failed to send message to one or more chats" ELSE ""]

\* lists of at most n chat ids
ChatIdLists(n) == UNION {[1..k -> ChatIdArgs] : k \in 0..n}

(* ------------------------------ actions ------------------------------- *)
\* the log directories as earlier runs may have left them: the two logs
\* are yet to be written, old.log may be there
InitialFiles ==
    {fs \in [Paths -> {NoFile} \cup {OldFile(m) : m \in OldMtimes}] :
        ~fs[SuccessLog].exists /\ ~fs[ErrorLog].exists}

Init ==
    /\ constructed = FALSE
    /\ chatId = Empty
    /\ cleanIntervalHours = 0
    /\ dirs \in {{}, {"logs", "logs/success", "logs/error"}}
    /\ files \in InitialFiles
    /\ (dirs = {} => \A p \in Paths : ~files[p].exists)
    /\ chatIdsFile = NoChatIdsFile
    /\ now = Now0
    /\ timerStart = Now0
    /\ ticks = 0
    /\ purges = 0
    /\ console = {}
    /\ fetchCalls = <<>>
    /\ sends = <<>>
    /\ multi = <<>>

\* index.ts:53-63, with startLogCleaningInterval (119-124)
Construct(options) ==
    /\ ~constructed
    /\ constructed' = TRUE
    /\ chatId' = options.chatId
    /\ cleanIntervalHours' = IF options.cleanIntervalHours # 0
                             THEN options.cleanIntervalHours ELSE DefaultCleanIntervalHours
    /\ dirs' = createLogDirs(dirs)
    /\ files' = cleanOldLogs(files, now)
    /\ console' = console \cup Expired(files, now)
    /\ purges' = purges + 1
    /\ timerStart' = now
    /\ UNCHANGED <<chatIdsFile, now, ticks, fetchCalls, sends, multi>>

\* index.ts:121-123: the interval becomes due and its callback runs
Tick ==
    /\ constructed
    /\ ticks < MaxTicks
    /\ now' = timerStart + cleanIntervalHours * HourMs
    /\ timerStart' = now'
    /\ files' = cleanOldLogs(files, now')
    /\ console' = console \cup Expired(files, now')
    /\ purges' = purges + 1
    /\ ticks' = ticks + 1
    /\ UNCHANGED <<constructed, chatId, cleanIntervalHours, dirs, chatIdsFile,
                   fetchCalls, sends, multi>>

\* index.ts:160-182: a direct call of sendMessage, up to its await
sendMessage(message, cid) ==
    /\ constructed
    /\ Len(sends) < MaxSends
    /\ LET st == sendMessageStart([file |-> chatIdsFile, calls |-> fetchCalls, sends |-> sends],
                                  message, cid, chatId, 0)
       IN /\ chatIdsFile' = st.file
          /\ fetchCalls' = st.calls
          /\ sends' = st.sends
    /\ UNCHANGED <<constructed, chatId, cleanIntervalHours, dirs, files, now, timerStart,
                   ticks, purges, console, multi>>

\* index.ts:203-213: a call of sendToMultipleChats, up to its await
sendToMultipleChats(message, cids) ==
    /\ constructed
    /\ Len(multi) < MaxMulti
    /\ Len(sends) + Len(cids) <= MaxSends
    /\ LET g == Len(multi) + 1
           st == mapSendMessage([file |-> chatIdsFile, calls |-> fetchCalls, sends |-> sends],
                                message, cids, chatId, g)
           m == [members |-> [k \in 1..Len(cids) |-> Len(sends) + k],
                 state |-> "pending", error |-> ""]
       IN /\ chatIdsFile' = st.file
          /\ fetchCalls' = st.calls
          /\ sends' = st.sends
          /\ multi' = Append(multi, settleMulti(m, st.sends))
    /\ UNCHANGED <<constructed, chatId, cleanIntervalHours, dirs, files, now, timerStart,
                   ticks, purges, console>>

\* the fetch of invocation i settles with outcome o; sendMessage runs to its
\* end and the sendToMultipleChats call awaiting it, if any, continues
Respond(i, o) ==
    /\ i \in 1..Len(sends)
    /\ sends[i].state = "awaiting"
    /\ LET r == sendMessageSettle([files |-> files, calls |-> fetchCalls], now, sends[i], o)
           ss == [sends EXCEPT ![i] = r.send]
       IN /\ files' = r.files
          /\ fetchCalls' = r.calls
          /\ sends' = ss
          /\ multi' = [g \in 1..Len(multi) |-> settleMulti(multi[g], ss)]
    /\ UNCHANGED <<constructed, chatId, cleanIntervalHours, dirs, chatIdsFile, now, timerStart,
                   ticks, purges, console>>

Next ==
    \/ \E options \in ConstructorOptions : Construct(options)
    \/ Tick
    \/ \E m \in Messages, c \in ChatIdArgs : sendMessage(m, c)
    \/ \E m \in Messages, cs \in ChatIdLists(MaxSends) : sendToMultipleChats(m, cs)
    \/ \E i \in 1..MaxSends, o \in HttpOutcomes : Respond(i, o)

Spec == Init /\ [][Next]_vars

(* ------------------------- what the claims use ------------------------ *)
\* the lines of the recipient store as they stand in the file
StoreLines(f) == IF f.exists THEN filterNonBlank(split(f.text)) ELSE <<>>

\* the identifiers of the store, read the way readChatIds reads it
Stored == Range(readChatIds(chatIdsFile))
\* the identifier is among ids, surrounding whitespace not counting
InStore(ids, cid) == trim(cid) \in ids

Is2xx(o) == o.type = "response" /\ o.status \in 200..299
HttpFailed(o) == o.type = "reject" \/ (o.type = "response" /\ o.status \notin 200..299)
Finished(s) == s.state # "awaiting"
Resolvable(s) == s.target # Empty
Members(g) == Range(multi[g].members)

\* C1: the recipient store file holds no identifier on more than one line.
C1_NoDuplicateLines ==
    LET ls == StoreLines(chatIdsFile)
    IN \A i, j \in 1..Len(ls) : ls[i] = ls[j] => i = j

\* C2: every send whose HTTP call fails (non-2xx status or any transport
\* error) appends exactly one line to the error log, none to the success
\* log, and reports a failure to its caller.
C2_FailedSendLoggedAndRejected ==
    \A i \in 1..Len(sends) :
        HttpFailed(sends[i].http) =>
            /\ sends[i].nError = 1
            /\ sends[i].nSuccess = 0
            /\ sends[i].state = "rejected"

\* C3: when sendToMultipleChats has reported its outcome, normal or failed,
\* every member send it started has finished.
C3_MultiWaitsForAll ==
    \A g \in 1..Len(multi) :
        multi[g].state # "pending" => \A i \in Members(g) : Finished(sends[i])

\* C3 as amended: when sendToMultipleChats has completed normally every
\* member send has received its HTTP outcome and finished; when it has
\* reported the aggregate failure at least one member send has finished
\* with a failure (the others may still be awaiting their HTTP outcome).
C3_MultiWaitsUnlessFailed ==
    \A g \in 1..Len(multi) :
        /\ multi[g].state = "resolved" =>
              \A i \in Members(g) :
                  sends[i].state = "resolved" /\ sends[i].http.type \in {"response", "reject"}
        /\ multi[g].state = "rejected" =>
              \E i \in Members(g) : sends[i].state = "rejected"

C3_Witness ==
    \E g \in 1..Len(multi) :
        /\ Len(multi[g].members) >= 2
        /\ multi[g].state = "resolved"
        /\ \A i \in Members(g) : Is2xx(sends[i].http)

\* C4: a send with no resolvable recipient fails at once, before any I/O:
\* no HTTP request is issued, the recipient store is unchanged and neither
\* log gains an entry.
C4_NoRecipientNoIO ==
    [][/\ \A i \in 1..Len(sends') :
             ~Resolvable(sends'[i]) =>
                 /\ sends'[i].state = "rejected"
                 /\ sends'[i].error = "Chat ID not provided"
                 /\ sends'[i].http = NotIssued
                 /\ sends'[i].nSuccess = 0 /\ sends'[i].nError = 0
       /\ (/\ Len(sends') > Len(sends)
           /\ \A i \in (Len(sends) + 1)..Len(sends') : ~Resolvable(sends'[i]))
          => UNCHANGED <<fetchCalls, chatIdsFile, files>>]_vars

C4_Witness ==
    /\ \E i \in 1..Len(sends) : ~Resolvable(sends[i]) /\ sends[i].group = 0
    /\ \E i \in 1..Len(sends) : ~Resolvable(sends[i]) /\ sends[i].group # 0

\* C5: every send with a resolvable recipient whose HTTP call returns a 2xx
\* status appends exactly one line to the success log, none to the error
\* log, and completes normally.
C5_SuccessLoggedOnce ==
    \A i \in 1..Len(sends) :
        Is2xx(sends[i].http) =>
            /\ sends[i].nSuccess = 1
            /\ sends[i].nError = 0
            /\ sends[i].state = "resolved"
            /\ Resolvable(sends[i])

C5_Witness ==
    \E i \in 1..Len(sends) :
        /\ Is2xx(sends[i].http)
        /\ files[SuccessLog].exists
        /\ files[SuccessLog].lines[Len(files[SuccessLog].lines)].text
              = <<"Message sent to chat", sends[i].target, sends[i].message>>

\* C6: sendToMultipleChats completes normally if and only if every member
\* send succeeds; if at least one member send fails it reports the
\* aggregate failure.
C6_MultiResolvesIffAllSucceed ==
    \A g \in 1..Len(multi) :
        /\ multi[g].state = "resolved" => \A i \in Members(g) : Is2xx(sends[i].http)
        /\ (/\ \A i \in Members(g) : Finished(sends[i])
            /\ \E i \in Members(g) : HttpFailed(sends[i].http))
           => multi[g].state = "rejected"

\* C7: once all member sends of a sendToMultipleChats call have finished,
\* each member whose HTTP call succeeded has added exactly one entry to the
\* success log, each member whose HTTP call failed exactly one entry to the
\* error log, and every identifier of the list is in the recipient store.
C7_MultiLogsPerMember ==
    LET ids == Stored IN
    \A g \in 1..Len(multi) :
        (\A i \in Members(g) : Finished(sends[i])) =>
            \A i \in Members(g) :
                /\ Is2xx(sends[i].http) => sends[i].nSuccess = 1 /\ sends[i].nError = 0
                /\ HttpFailed(sends[i].http) => sends[i].nError = 1 /\ sends[i].nSuccess = 0
                /\ Resolvable(sends[i]) => InStore(ids, sends[i].target)

\* C8: within a send with a resolvable recipient the recipient is recorded
\* in the store before the HTTP request is issued, and the log entry is
\* written after it; so the recipient is in the store once the request is
\* issued and after the send, whether the HTTP call succeeds or fails.
C8_RecordedOnAttempt ==
    LET ids == Stored IN
    /\ \A k \in 1..Len(fetchCalls) : InStore(ids, fetchCalls[k].chat_id)
    /\ \A i \in 1..Len(sends) :
          /\ Resolvable(sends[i]) => InStore(ids, sends[i].target)
          /\ sends[i].state = "awaiting" => sends[i].nSuccess = 0 /\ sends[i].nError = 0

C8_Witness ==
    \E i, j \in 1..Len(sends) :
        /\ HttpFailed(sends[i].http) /\ sends[i].nError = 1
        /\ sends[j].state = "awaiting"
        /\ InStore(Stored, sends[i].target)
        /\ InStore(Stored, sends[j].target)
        /\ Len(StoreLines(chatIdsFile)) = 1

\* C9: the number of HTTP requests issued never exceeds the number of send
\* invocations that resolved a recipient; a failed send is not reattempted.
C9_AtMostOneRequestPerSend ==
    Len(fetchCalls) <= Cardinality({i \in 1..Len(sends) : Resolvable(sends[i])})

C9_Witness ==
    /\ Len(fetchCalls) = 2
    /\ \E i \in 1..Len(sends) : HttpFailed(sends[i].http) /\ sends[i].state = "rejected"

\* C10: every purge pass (at construction and on each tick) deletes every
\* log-directory file whose modification time is more than 7 days old and
\* retains every file whose modification time is newer than 7 days; a log
\* a send appended to within the last 7 days is not deleted.
C10_PurgeByAge ==
    [][purges' # purges =>
          \A p \in Paths :
              files[p].exists =>
                  /\ now' - files[p].mtime > WeekMs => ~files'[p].exists
                  /\ now' - files[p].mtime < WeekMs => files'[p] = files[p]
                  /\ (/\ p \in {SuccessLog, ErrorLog}
                      /\ now' - files[p].lines[Len(files[p].lines)].ts < WeekMs)
                     => files'[p] = files[p]]_vars

C10_Witness ==
    /\ ticks >= 1
    /\ SuccessLog \in console
    /\ ~files[SuccessLog].exists
    /\ files[ErrorLog].exists

====
